---- MODULE Spec2Model ----
(***************************************************************************)
(* DeepResearch: the research session orchestrator and its history store.  *)
(*                                                                         *)
(* App.tsx is a React function component.  Every render creates fresh      *)
(* handler closures over that render's state values.  A handler invoked by *)
(* the user runs with the values of the latest render; the continuation    *)
(* of an async handler after its `await` still runs inside the closure of  *)
(* the render in which the handler was invoked.  A pending request is      *)
(* therefore modelled as a record holding the values its continuation      *)
(* closes over (historyItems, currentResearchId, query, config).  All      *)
(* setState calls of the code pass plain values, never updater functions.  *)
(*                                                                         *)
(* Not modelled: the purely visual state showSettings and historyOpen (the *)
(* History button is always enabled, so the sidebar can always be opened), *)
(* and the focus and count buttons of the settings panel (the language     *)
(* buttons are modelled).                                                  *)
(***************************************************************************)
EXTENDS Integers, Sequences, FiniteSets, TLC

\* ---------------------------------------------------------------- bounds
\* operations explored in one behaviour that start a request (discovery,
\* image, review, chat turn), remove sessions (delete, clear) or change
\* the configuration; loads and typing are not limited
MaxOps == 3
\* longest article list of a discovery result given to a stage
MaxArticles == 2
\* most content parts in an image response given to the timeline stage
MaxParts == 2

\* ----------------------------------------------------- program constants
\* App.tsx:39  .slice(0, 15)
Capacity == 15

Null == "null"

\* the characters response texts and queries are made of: braces, blank,
\* a prose letter, and two tokens that each stand for the member list of
\* a well-formed research result
Blank == " "
Members == {"a", "b"}
\* a token that is a complete JSON text without being an object (a number,
\* a string literal, null, an array)
Scalars == {"7"}

\* ------------------------------------------------------- string helpers
RECURSIVE indexOf(_, _, _)
\* String.prototype.indexOf(ch) scanning from 0-based position `from`;
\* -1 when absent
indexOf(text, ch, from) ==
  IF from >= Len(text) THEN -1
  ELSE IF text[from + 1] = ch THEN from
  ELSE indexOf(text, ch, from + 1)

RECURSIVE lastIndexOfFrom(_, _, _)
lastIndexOfFrom(text, ch, from) ==
  IF from < 0 THEN -1
  ELSE IF text[from + 1] = ch THEN from
  ELSE lastIndexOfFrom(text, ch, from - 1)

\* String.prototype.lastIndexOf(ch); -1 when absent
lastIndexOf(text, ch) == lastIndexOfFrom(text, ch, Len(text) - 1)

\* String.prototype.substring(start, end): 0-based, end exclusive
substring(text, start, end) == SubSeq(text, start + 1, end)

RECURSIVE trimStart(_)
trimStart(text) ==
  IF text # <<>> /\ Head(text) = Blank THEN trimStart(Tail(text)) ELSE text

RECURSIVE trimEnd(_)
trimEnd(text) ==
  IF text # <<>> /\ text[Len(text)] = Blank
  THEN trimEnd(SubSeq(text, 1, Len(text) - 1)) ELSE text

\* String.prototype.trim()
trim(text) == trimEnd(trimStart(text))

\* cleanJson without the brace-bounded slice
cleanJson_trimsOnly(text) ==
  trim(text)

\* geminiService.ts cleanJson
cleanJson(text) ==
  LET start == indexOf(text, "{", 0)
      end   == lastIndexOf(text, "}")
  IN  IF start = -1 \/ end = -1 \/ start > end
      THEN trim(text)
      ELSE substring(text, start, end + 1)

\* JSON.parse on a candidate text: the text is an object exactly when,
\* blanks aside, it is one opening brace, one member list and one closing
\* brace; a single scalar token is a JSON text too and parses to its
\* value; anything else is a SyntaxError
JSONparse(text) ==
  LET t == trim(text)
      inner == IF Len(t) >= 2 THEN trim(SubSeq(t, 2, Len(t) - 1)) ELSE <<>>
  IN  IF /\ Len(t) >= 2
         /\ t[1] = "{"
         /\ t[Len(t)] = "}"
         /\ Len(inner) = 1
         /\ inner[1] \in Members
      THEN [ok |-> TRUE, value |-> inner[1]]
      ELSE IF Len(t) = 1 /\ t[1] \in Scalars
      THEN [ok |-> TRUE, value |-> t[1]]
      ELSE [ok |-> FALSE, error |-> "SyntaxError"]

\* researchTopic with a catch block that answers a failed request with a
\* default result instead of rethrowing
researchTopic_swallowsFailure(hasKey, response) ==
  IF ~hasKey THEN [ok |-> FALSE, error |-> "API Key is missing"]
  ELSE IF response.kind = "error" THEN [ok |-> TRUE, data |-> "a"]
  ELSE IF response.text = <<>> THEN [ok |-> TRUE, data |-> "a"]
  ELSE LET parsed == JSONparse(cleanJson(response.text))
       IN  IF parsed.ok THEN [ok |-> TRUE, data |-> parsed.value]
           ELSE [ok |-> TRUE, data |-> "a"]

\* geminiService.ts researchTopic: `hasKey` is process.env.API_KEY being
\* set, `response` is what the transport gives back for the request
researchTopic(hasKey, response) ==
  IF ~hasKey THEN [ok |-> FALSE, error |-> "API Key is missing"]
  ELSE IF response.kind = "error" THEN [ok |-> FALSE, error |-> "transport"]
  ELSE IF response.text = <<>>
       THEN [ok |-> FALSE, error |-> "No response from Gemini"]
  ELSE LET parsed == JSONparse(cleanJson(response.text))
       IN  IF parsed.ok THEN [ok |-> TRUE, data |-> parsed.value]
           ELSE [ok |-> FALSE, error |-> parsed.error]

\* ------------------------------------------------------ input alphabets
\* texts typed into the search box: a topic, and blanks alone
Queries == {<<"c">>, <<Blank>>}
\* what the transport may return to a discovery request
TextResponses ==
  { <<>>,
    <<"p">>,
    <<"7">>,
    <<"}", "p", "{">>,
    <<"{", "p", "}", "{", "a", "}">>,
    <<"{", "b", "}">>,
    <<"p", "{", "a", "}", "p">> }
Responses ==
  {[kind |-> "error"]} \cup {[kind |-> "text", text |-> t] : t \in TextResponses}
\* the image the model draws from the visual prompt of the research
\* result `context`, and the review it writes about that result
ImageFor(context) == "img" \o context
ReviewFor(context) == "rev" \o context
Reviews(context) == {ReviewFor(context)}
\* content parts of an image response: a part carries inline data or not
NoData == "none"
PartLists(context) ==
  { <<[inlineData |-> NoData]>>,
    <<[inlineData |-> NoData], [inlineData |-> ImageFor(context)]>> }
ImageResponses(context) ==
  {[kind |-> "error"]} \cup
  {[kind |-> "parts", parts |-> p] : p \in PartLists(context)}
ReviewResponses(context) ==
  {[kind |-> "error"]} \cup
  {[kind |-> "text", text |-> t] : t \in Reviews(context) \cup {""}}

ReviewFallback == "Failed to generate literature review."

\* geminiService.ts generateLiteratureReview
generateLiteratureReview(hasKey, response) ==
  IF ~hasKey THEN [ok |-> FALSE, error |-> "API Key is missing"]
  ELSE IF response.kind = "error" THEN [ok |-> FALSE, error |-> "transport"]
  ELSE [ok |-> TRUE,
        data |-> IF response.text = "" THEN ReviewFallback ELSE response.text]

RECURSIVE firstInlineData_last(_)
\* the loop keeping the last part with inline data instead of returning
\* at the first
firstInlineData_last(parts) ==
  IF parts = <<>> THEN NoData
  ELSE IF parts[Len(parts)].inlineData # NoData THEN parts[Len(parts)].inlineData
  ELSE firstInlineData_last(SubSeq(parts, 1, Len(parts) - 1))

RECURSIVE firstInlineData(_)
\* the loop over response.candidates[0].content.parts
firstInlineData(parts) ==
  IF parts = <<>> THEN NoData
  ELSE IF Head(parts).inlineData # NoData THEN Head(parts).inlineData
  ELSE firstInlineData(Tail(parts))

\* geminiService.ts generateTimelineImage; the key is not tested, and
\* without one the client library or the transport refuses
generateTimelineImage(hasKey, response) ==
  IF ~hasKey THEN [ok |-> FALSE, error |-> "refused without a key"]
  ELSE IF response.kind = "error" THEN [ok |-> FALSE, error |-> "transport"]
  ELSE IF firstInlineData(response.parts) = NoData
       THEN [ok |-> FALSE, error |-> "No image data found in response"]
       ELSE [ok |-> TRUE, data |-> firstInlineData(response.parts)]

\* the language buttons the user clicks, App.tsx:298-302
LanguagePicks == {"en", "zh"}
\* texts typed into the chat input
ChatInputs == {<<"q">>}
\* what the transport may return to a turn sent on the chat created for
\* `context`: an error, an empty text, or an answer about that context
ChatResponses(context) ==
  {[kind |-> "error"]} \cup
  {[kind |-> "text", text |-> t] : t \in {<<>>, <<"answer", context>>}}

ChatFallback == <<"I couldn't generate a response.">>
ChatApology == <<"Sorry, I encountered an error while trying to answer that.">>

\* the welcome message for the research result `context`
Greeting(context) == [role |-> "model", text |-> <<"Hi!", context>>]

\* geminiService.ts getResearchChatSession: the chat object is
\* represented by the research result it was created for
getResearchChatSession(hasKey, context) ==
  IF ~hasKey THEN [ok |-> FALSE, error |-> "API Key is missing"]
  ELSE [ok |-> TRUE, chat |-> context]

\* ------------------------------------------------- compiled instructions
\* A text is a sequence of tokens; interpolating a value into a template
\* literal puts its tokens at that place.

\* a key the languageNames table lacks yields undefined, which a template
\* literal prints as the word undefined
Undefined == "undefined"

\* const languageNames = { en, zh, ja }; languageNames[language]
languageNames(language) ==
  CASE language = "en" -> "English"
    [] language = "zh" -> "Chinese (Simplified)"
    [] language = "ja" -> "Japanese"
    [] OTHER -> Undefined

\* the three focus blocks of researchTopic
FocusClassic ==
  << "PRIORITY: FOCUS HEAVILY ON HISTORY.",
     "1. Identify the most seminal Foundational papers (the classics).",
     "2. Include a few recent papers only if they changed the paradigms.",
     "3. The list should be dominated by the most cited, historical works." >>
FocusRecent ==
  << "PRIORITY: FOCUS HEAVILY ON THE LAST 5 YEARS.",
     "1. Identify key Recent Breakthroughs primarily from 2020-2025.",
     "2. Only include the most vital 1-2 historical papers for context.",
     "3. The list should be dominated by recent advancements." >>
FocusBalanced ==
  << "PRIORITY: BALANCE HISTORY AND MODERNITY.",
     "1. Identify the most seminal Foundational papers (the classics).",
     "2. CRITICAL: Identify key Recent Breakthroughs from the last 3-5 years.",
     "3. The list MUST be a 50/50 mix of history and modern state-of-the-art." >>

\* the switch with the recent case producing the classic block
focusInstruction_recentAsClassic(focus) ==
  CASE focus = "classic" -> FocusClassic
    [] focus = "recent" -> FocusClassic
    [] OTHER -> FocusBalanced

\* switch (config.focus) { case 'classic' .. case 'recent' .. default }
focusInstruction(focus) ==
  CASE focus = "classic" -> FocusClassic
    [] focus = "recent" -> FocusRecent
    [] OTHER -> FocusBalanced

\* researchTopic: systemInstruction
discoveryInstruction(cfg) ==
  << "You are an expert academic researcher and historian of science.",
     "The user has requested the output in", languageNames(cfg.language),
     "The summary, ai_summary and significance fields MUST be written in",
     languageNames(cfg.language),
     "STRICT PAPER SELECTION CRITERIA" >>
  \o focusInstruction(cfg.focus) \o
  << "4. Summarize the historical development of the field in",
     languageNames(cfg.language),
     "5. Explain the significance of each selected paper in",
     languageNames(cfg.language),
     "Return the output in strictly valid JSON format." >>

\* researchTopic: prompt
discoveryPrompt(topic, cfg) ==
  <<"Conduct deep research on the field:">> \o topic \o
  << "TARGET ARTICLE COUNT:", ToString(cfg.count),
     "You must aim to find", ToString(cfg.count),
     "Output JSON structure: topic:" >> \o topic \o
  << "summary: in", languageNames(cfg.language),
     "ai_summary: in", languageNames(cfg.language),
     "significance: in", languageNames(cfg.language) >>

RECURSIVE join(_, _)
\* Array.prototype.join(sep) over an array of texts
join(texts, sep) ==
  IF texts = <<>> THEN <<>>
  ELSE IF Len(texts) = 1 THEN texts[1]
  ELSE texts[1] \o <<sep>> \o join(Tail(texts), sep)

\* generateLiteratureReview: one entry of articleList, i counted from 1
reviewArticle(a, i) ==
  << "[" \o ToString(i) \o "]", "Title:", a.title, "Authors:", a.authors,
     "Journal:", a.journal, "Year:", a.publication_date,
     "Summary:", a.ai_summary, "Significance:", a.significance >>

\* the sentence of the IEEE block that fixes the order of the bibliography
AppearanceOrderRule ==
  "CRITICAL: The References list MUST be sorted by the order of appearance in the text (Citation Order), NOT alphabetically."

\* the four style blocks of generateLiteratureReview
StyleIeee ==
  << "CITATION STYLE: IEEE (Numeric).",
     "Use numeric citations in square brackets like [1], [2] in the text.",
     AppearanceOrderRule,
     "The References section MUST be a numbered list corresponding to the appearance order." >>
StyleMla ==
  << "CITATION STYLE: MLA.",
     "Use (Author Page) or (Author) style in text.",
     "References should be labeled Works Cited and formatted in MLA style (Alphabetical)." >>
StyleHarvard ==
  << "CITATION STYLE: Harvard.",
     "Use (Author, Year) in text.",
     "References should be alphabetical and formatted in Harvard style." >>
StyleApa ==
  << "CITATION STYLE: APA 7th Edition.",
     "Use (Author, Year) in text.",
     "References should be labeled References and formatted in APA 7th style (Alphabetical)." >>

\* the switch with the mla case falling through to the harvard block
styleInstruction_mlaFallsThrough(citationStyle) ==
  CASE citationStyle = "ieee" -> StyleIeee
    [] citationStyle = "mla" -> StyleMla \o StyleHarvard
    [] citationStyle = "harvard" -> StyleHarvard
    [] OTHER -> StyleApa

\* switch (citationStyle) { case 'ieee' .. 'mla' .. 'harvard' .. default }
styleInstruction(citationStyle) ==
  CASE citationStyle = "ieee" -> StyleIeee
    [] citationStyle = "mla" -> StyleMla
    [] citationStyle = "harvard" -> StyleHarvard
    [] OTHER -> StyleApa

\* generateLiteratureReview: prompt
reviewPrompt(res, language, citationStyle) ==
  <<"Write a high-quality academic Literature Review about">> \o res.topic \o
  <<"LANGUAGE: Write the review in", languageNames(language)>> \o
  styleInstruction(citationStyle) \o
  <<"STRUCTURE:", "SOURCE DATA:">> \o
  join([i \in 1..Len(res.articles) |-> reviewArticle(res.articles[i], i)], "\n")

\* generateLiteratureReview: systemInstruction
reviewInstruction ==
  << "You are an expert academic writer specializing in literature reviews.",
     "You strictly follow the requested citation style.",
     "For IEEE style, you STRICTLY respect the order of appearance for the bibliography.",
     "Return the output in Markdown format." >>

\* generateTimelineImage: prompt
timelinePrompt(visualPrompt, language) ==
  << "Create a high-quality, professional infographic timeline.",
     "Language Requirement: All visible text labels MUST be in",
     languageNames(language),
     "Content description:", visualPrompt >>

\* a.journal || 'Unknown'
OrUnknown(journal) == IF journal = "" THEN "Unknown" ELSE journal

\* the line numbering its articles from 0
chatArticle_zeroBased(a, i) ==
  << ToString(i - 1) \o ".", a.title, a.publication_date, "by", a.authors,
     "Journal:", OrUnknown(a.journal), "Significance:", a.significance,
     "Summary:", a.ai_summary >>

\* getResearchChatSession: one line of the article list, i counted from 1
chatArticle(a, i) ==
  << ToString(i) \o ".", a.title, a.publication_date, "by", a.authors,
     "Journal:", OrUnknown(a.journal), "Significance:", a.significance,
     "Summary:", a.ai_summary >>

KeyArticles == "KEY ARTICLES (Foundational & Recent):"

\* getResearchChatSession: contextString
contextString(context) ==
  <<"TOPIC:">> \o context.topic \o <<"SUMMARY:">> \o context.summary \o
  <<KeyArticles>> \o
  join([i \in 1..Len(context.articles) |-> chatArticle(context.articles[i], i)],
       "\n")

\* getResearchChatSession: systemInstruction
chatInstruction(context) ==
  <<"You are an intelligent research assistant helping a user explore the topic:">>
  \o context.topic \o
  <<"You have access to the research summary and key articles listed below.",
    "CONTEXT DATA:">> \o contextString(context)

RECURSIVE blockquote(_)
\* result.summary.replace(/\n/g, '\n> ')
blockquote(text) ==
  IF text = <<>> THEN <<>>
  ELSE (IF Head(text) = "\n" THEN <<"\n", "> ">> ELSE <<Head(text)>>)
       \o blockquote(Tail(text))

\* handleExportMarkdown: the subsection of one article, i counted from 1
exportArticle(article, i) ==
  <<"### " \o ToString(i) \o ".", article.title, "*", article.authors, "*">> \o
  (IF article.publication_date # ""
   THEN <<"**", article.publication_date, "**">> ELSE <<>>) \o
  (IF article.url # "" THEN <<"[Read Full Paper]", article.url>> ELSE <<>>) \o
  <<"**Significance**", article.significance,
    "**AI Summary**", article.ai_summary, "---">>

RECURSIVE concat(_)
\* content += .. for each element in turn
concat(texts) ==
  IF texts = <<>> THEN <<>> ELSE Head(texts) \o concat(Tail(texts))

\* handleExportMarkdown, App.tsx:146-179: the document built from the view
\* state and from `date`, the clock reading new Date().toLocaleString()
exportContent(res, image, review, date) ==
  <<"# DeepResearch:">> \o res.topic \o
  <<"*Generated by Gemini 3 Pro on", date, "*",
    "## Development Summary", "> ">> \o blockquote(res.summary) \o
  (IF image # Null /\ image # ""
   THEN <<"## Visual Timeline", "![Timeline of">> \o res.topic \o <<image>>
   ELSE <<>>) \o
  (IF review # Null /\ review # ""
   THEN <<"## Literature Review", review>> ELSE <<>>) \o
  <<"## Seminal & Important Articles">> \o
  concat([i \in 1..Len(res.articles) |-> exportArticle(res.articles[i], i)])

\* ------------------------------------------- inputs of the stage calls
ArticleA ==
  [title |-> "t1", authors |-> "au1", journal |-> "Nature",
   publication_date |-> "2017", ai_summary |-> "as1", significance |-> "sg1",
   url |-> "u1"]
\* an article without journal, date and link
ArticleB ==
  [title |-> "t2", authors |-> "au2", journal |-> "",
   publication_date |-> "", ai_summary |-> "as2", significance |-> "sg2",
   url |-> ""]
ArticleLists == UNION {[1..k -> {ArticleA, ArticleB}] : k \in 0..MaxArticles}
\* discovery results as JSON.parse returns them
ResearchResults ==
  {[topic |-> <<"c">>, summary |-> <<"s1", "\n", "s2">>,
    suggestedVisualPrompt |-> "vp", articles |-> l] : l \in ArticleLists}
\* language values: the three of the settings panel and one the table of
\* language names does not hold
Languages == {"en", "zh", "ja", "fr"}
\* focus values: the three of the settings panel and an unknown one
Focuses == {"classic", "balanced", "recent", "other"}
Configs == {[focus |-> f, count |-> 10, language |-> l] :
              f \in Focuses, l \in Languages}
\* citation styles: the four known ones and an unknown one
CitationStyles == {"apa", "mla", "harvard", "ieee", "other"}
\* the content parts of an image response, for the stage called on its own
Payloads == {NoData, "imgA", "imgB"}
StagePartLists ==
  UNION {[1..k -> {[inlineData |-> d] : d \in Payloads}] : k \in 0..MaxParts}
StageImageResponses ==
  {[kind |-> "error"]} \cup {[kind |-> "parts", parts |-> p] : p \in StagePartLists}
\* clock readings printed into an export
Dates == {"d1", "d2"}

\* App.tsx:16 initial config
DefaultConfig == [focus |-> "balanced", count |-> 10, language |-> "en"]

SearchErrorMessage ==
  "Failed to research topic. Please check your API key and try again."

\* ------------------------------------------------------------- sessions
\* HistoryItem as handleSearch builds it
NewItem(id, timestamp, topic, data, cfg) ==
  [id |-> id, timestamp |-> timestamp, topic |-> topic, result |-> data,
   timelineImage |-> Null, literatureReview |-> Null, config |-> cfg]

\* Date.now().toString()
IdOf(t) == ToString(t)

\* JSON.stringify(historyItems): an array text with one object text per
\* session, fields in insertion order
StringifyItem(item) ==
  <<item.id, item.timestamp, item.topic, item.result, item.timelineImage,
    item.literatureReview, item.config>>

JSONstringify(items) ==
  [kind |-> "json", array |-> [i \in 1..Len(items) |-> StringifyItem(items[i])]]

ParseItem(t) ==
  [id |-> t[1], timestamp |-> t[2], topic |-> t[3], result |-> t[4],
   timelineImage |-> t[5], literatureReview |-> t[6], config |-> t[7]]

\* JSON.parse(savedHistory)
JSONparseHistory(text) ==
  IF text.kind = "json"
  THEN [ok |-> TRUE, value |-> [i \in 1..Len(text.array) |-> ParseItem(text.array[i])]]
  ELSE [ok |-> FALSE]

\* localStorage.getItem on a key that was never set
NoItem == [kind |-> "null"]
\* a stored text that is not JSON
GarbageText == [kind |-> "garbage"]

\* a history written by an earlier run of the program: n sessions, newest
\* first, created at clock values n, n-1, .., 1; the newest has an image
\* and a review attached
RECURSIVE EarlierHistory(_, _)
EarlierHistory(n, newest) ==
  IF n = 0 THEN <<>>
  ELSE LET item == NewItem(IdOf(n), n, <<"c">>, "a", DefaultConfig)
       IN  <<IF n = newest
              THEN [item EXCEPT !.timelineImage = "img0", !.literatureReview = "rev0"]
              ELSE item>> \o EarlierHistory(n - 1, newest)

\* ------------------------------------------------- store transformations
\* saveToHistory putting the new item behind the stored ones
saveToHistoryItems_appends(items, newItem) ==
  SubSeq(items \o <<newItem>>, 1,
         IF Len(items) + 1 < Capacity THEN Len(items) + 1 ELSE Capacity)

\* saveToHistory: [newItem, ...historyItems].slice(0, 15)
saveToHistoryItems(items, newItem) ==
  SubSeq(<<newItem>> \o items, 1,
         IF Len(items) + 1 < Capacity THEN Len(items) + 1 ELSE Capacity)

\* the map building the updated entry from the updates alone, without
\* spreading the stored item
updateHistoryItems_dropsItem(items, id, field, value) ==
  [i \in 1..Len(items) |->
     IF items[i].id = id
     THEN IF field = "timelineImage"
          THEN [items[i] EXCEPT !.timelineImage = value, !.topic = <<>>,
                                !.result = Null]
          ELSE [items[i] EXCEPT !.literatureReview = value, !.topic = <<>>,
                                !.result = Null]
     ELSE items[i]]

\* updateHistoryItem: historyItems.map(item => item.id === id ? {...item, ...updates} : item)
updateHistoryItems(items, id, field, value) ==
  [i \in 1..Len(items) |->
     IF items[i].id = id
     THEN IF field = "timelineImage"
          THEN [items[i] EXCEPT !.timelineImage = value]
          ELSE [items[i] EXCEPT !.literatureReview = value]
     ELSE items[i]]

RECURSIVE deleteHistoryItems_keepsMatch(_, _)
\* the filter with its test inverted: item.id === id
deleteHistoryItems_keepsMatch(items, id) ==
  IF items = <<>> THEN <<>>
  ELSE IF Head(items).id # id THEN deleteHistoryItems_keepsMatch(Tail(items), id)
  ELSE <<Head(items)>> \o deleteHistoryItems_keepsMatch(Tail(items), id)

\* deleteHistoryItem: historyItems.filter(item => item.id !== id)
RECURSIVE deleteHistoryItems(_, _)
deleteHistoryItems(items, id) ==
  IF items = <<>> THEN <<>>
  ELSE IF Head(items).id = id THEN deleteHistoryItems(Tail(items), id)
  ELSE <<Head(items)>> \o deleteHistoryItems(Tail(items), id)

\* item.literatureReview || null
OrNull(v) == IF v = Null \/ v = "" THEN Null ELSE v

\* ------------------------------------------------------------------ state
VARIABLES
  query, isSearching, result, error, config,          \* App.tsx useState
  timelineImage, literatureReview,
  historyItems, currentResearchId,
  storage,          \* localStorage['deep_research_history']
  apiKey,           \* process.env.API_KEY is set
  now,              \* the millisecond clock read by Date.now()
  searchReq,        \* pending handleSearch continuations (closures)
  timelineReqs,     \* pending TimelineSection.handleGenerate continuations
  reviewReqs,       \* pending literature-review continuations
  loading,          \* TimelineSection loading flag
  uncaught,         \* the last handler let an exception escape
  quotaExceeded,    \* localStorage refuses every setItem (no space left)
  messages, chatSessionRef, isLoading,                \* ChatWidget state
  chatReqs,         \* pending ChatWidget.handleSend continuations
  crashed,          \* a render or an effect threw: React unmounted the page
  nOps,             \* requests started and removals done so far
  call, ret         \* the stage function entered last and what it produced

appVars == <<query, isSearching, result, error, config, timelineImage,
          literatureReview, historyItems, currentResearchId, storage, apiKey,
          now, searchReq, timelineReqs, reviewReqs, loading, uncaught,
          quotaExceeded, messages, chatSessionRef, isLoading, chatReqs,
          crashed, nOps>>

\* the state of the program: everything but the two observations
\* `uncaught` and `nOps` made about a behaviour
programVars == <<query, isSearching, result, error, config, timelineImage,
                 literatureReview, historyItems, currentResearchId, storage,
                 apiKey, now, searchReq, timelineReqs, reviewReqs, loading,
                 quotaExceeded, messages, chatSessionRef, isLoading, chatReqs,
                 crashed>>

stageVars == <<call, ret>>

vars == <<appVars, stageVars>>

\* no stage function has been entered on its own
NoCall == [fn |-> "none"]

chatVars == <<messages, chatSessionRef, isLoading, chatReqs>>


\* what the mount effect finds in localStorage
InitialStorages ==
  {NoItem, GarbageText, JSONstringify(EarlierHistory(Capacity, Capacity))}

\* the load-history effect putting a placeholder session into the store
\* when the saved text does not parse
LoadedHistory_placeholderOnFailure(saved) ==
  IF saved = NoItem THEN <<>>
  ELSE LET parsed == JSONparseHistory(saved)
       IN  IF parsed.ok THEN parsed.value ELSE EarlierHistory(1, 0)

\* the load-history effect, App.tsx:27-36
LoadedHistory(saved) ==
  IF saved = NoItem THEN <<>>
  ELSE LET parsed == JSONparseHistory(saved)
       IN  IF parsed.ok THEN parsed.value ELSE <<>>

Init ==
  /\ storage \in InitialStorages
  /\ historyItems = LoadedHistory(storage)
  /\ query = <<>>
  /\ isSearching = FALSE
  /\ result = Null
  /\ error = Null
  /\ config = DefaultConfig
  /\ timelineImage = Null
  /\ literatureReview = Null
  /\ currentResearchId = Null
  /\ apiKey \in BOOLEAN
  /\ now = Capacity
  /\ searchReq = <<>>
  /\ timelineReqs = <<>>
  /\ reviewReqs = <<>>
  /\ loading = FALSE
  /\ uncaught = FALSE
  /\ quotaExceeded \in BOOLEAN
  /\ messages = <<>>
  /\ chatSessionRef = Null
  /\ isLoading = FALSE
  /\ chatReqs = <<>>
  /\ crashed = FALSE
  /\ nOps = 0
  /\ call = NoCall
  /\ ret = NoCall

\* ---------------------------------------------------------------- helpers
\* the continuations of a component that has been unmounted still run, but
\* their setState calls on that component no longer have an effect
Orphaned(reqs) == [i \in 1..Len(reqs) |-> [reqs[i] EXCEPT !.mounted = FALSE]]

RemoveAt(reqs, i) == SubSeq(reqs, 1, i - 1) \o SubSeq(reqs, i + 1, Len(reqs))

\* localStorage.setItem(key, text): the outcome, and the stored text after
setItem(text) ==
  IF quotaExceeded THEN [ok |-> FALSE, stored |-> storage]
  ELSE [ok |-> TRUE, stored |-> text]

\* try { localStorage.setItem(key, JSON.stringify(updated)) } catch { warn }
TrySetItem(updated) ==
  storage' = setItem(JSONstringify(updated)).stored

\* the values a handler closes over at the render it was created in
SearchClosure ==
  [query |-> query, config |-> config, historyItems |-> historyItems]

\* `language` is the language prop of that render, App.tsx:415 and 435
SectionClosure ==
  [currentResearchId |-> currentResearchId, historyItems |-> historyItems,
   mounted |-> TRUE, language |-> config.language]

\* result becomes null: TimelineSection, the review section and the
\* ChatWidget unmount and lose their state; the continuation of a turn of
\* the unmounted ChatWidget only calls that widget's setState, so the turn
\* is dropped from the pending ones
UnmountSections ==
  /\ loading' = FALSE
  /\ timelineReqs' = Orphaned(timelineReqs)
  /\ reviewReqs' = Orphaned(reviewReqs)
  /\ messages' = <<>>
  /\ chatSessionRef' = Null
  /\ isLoading' = FALSE
  /\ chatReqs' = <<>>

\* ChatWidget.tsx:27-36, the effect run for a new researchResult; the
\* research result object of a session is identified by the session id.
\* getResearchChatSession throws inside the effect when the key is
\* missing, and nothing above ChatWidget catches it
ChatInit(context) ==
  LET session == getResearchChatSession(apiKey, context)
  IN  IF session.ok
      THEN /\ chatSessionRef' = session.chat
           /\ messages' = <<Greeting(context)>>
           /\ crashed' = FALSE
      ELSE /\ crashed' = TRUE
           /\ UNCHANGED <<chatSessionRef, messages>>

\* the render that follows setResult(data) for the session `id`,
\* App.tsx:388-445 and the sidebar entry (item.result.articles.length): a
\* value that is not a research result object makes the render throw; the
\* same result object as before leaves the ChatWidget alone; a mounting
\* ChatWidget starts with fresh state, a mounted one keeps isLoading
RenderResult(id, data) ==
  IF data \notin Members
  THEN /\ crashed' = TRUE
       /\ chatReqs' = <<>>
       /\ UNCHANGED <<messages, chatSessionRef, isLoading>>
  ELSE IF result # Null /\ currentResearchId = id
  THEN UNCHANGED <<chatVars, crashed>>
  ELSE /\ isLoading' = IF result = Null THEN FALSE ELSE isLoading
       /\ chatReqs' = chatReqs
       /\ ChatInit(id)

\* ---------------------------------------------------------------- actions
\* App.tsx:262 onChange of the search input (disabled while searching)
SetQuery(q) ==
  /\ UNCHANGED stageVars
  /\ ~crashed
  /\ ~isSearching
  /\ query' = q
  /\ uncaught' = FALSE
  /\ UNCHANGED <<isSearching, result, error, config, timelineImage,
                 literatureReview, historyItems, currentResearchId, storage,
                 apiKey, now, searchReq, timelineReqs, reviewReqs, loading,
                 quotaExceeded, chatVars, crashed, nOps>>

\* App.tsx:306 onClick of a language button of the settings panel
setConfig(language) ==
  /\ UNCHANGED stageVars
  /\ ~crashed
  /\ nOps < MaxOps
  /\ nOps' = nOps + 1
  /\ config' = [config EXCEPT !.language = language]
  /\ uncaught' = FALSE
  /\ UNCHANGED <<query, isSearching, result, error, timelineImage,
                 literatureReview, historyItems, currentResearchId, storage,
                 apiKey, now, searchReq, timelineReqs, reviewReqs, loading,
                 quotaExceeded, chatVars, crashed>>

\* the continuation of handleSearch resetting isSearching on success
\* only, as a try/catch without the finally block would
SearchSettled_noFinally(req, r) ==
  /\ IF r.ok
     THEN /\ isSearching' = FALSE
          /\ now' = now + 1
          /\ result' = r.data
          /\ currentResearchId' = IdOf(now')
          /\ LET newItem == NewItem(IdOf(now'), now', req.query, r.data, req.config)
                 updatedHistory == saveToHistoryItems(req.historyItems, newItem)
             IN  /\ historyItems' = updatedHistory
                 /\ TrySetItem(updatedHistory)
          /\ RenderResult(IdOf(now'), r.data)
          /\ UNCHANGED error
     ELSE /\ error' = SearchErrorMessage
          /\ UNCHANGED <<isSearching, result, currentResearchId, historyItems,
                         storage, now, chatVars, crashed>>

\* App.tsx:104-126, the part of handleSearch after `await researchTopic`:
\* `req` is the closure of the render handleSearch was invoked in, `r` the
\* outcome of researchTopic
SearchSettled(req, r) ==
  /\ isSearching' = FALSE
  /\ IF r.ok
     THEN /\ now' = now + 1
          /\ result' = r.data
          /\ currentResearchId' = IdOf(now')
          /\ LET newItem == NewItem(IdOf(now'), now', req.query, r.data, req.config)
                 updatedHistory == saveToHistoryItems(req.historyItems, newItem)
             IN  /\ historyItems' = updatedHistory
                 /\ TrySetItem(updatedHistory)
          /\ RenderResult(IdOf(now'), r.data)
          /\ UNCHANGED error
     ELSE /\ error' = SearchErrorMessage
          /\ UNCHANGED <<result, currentResearchId, historyItems, storage,
                         now, chatVars, crashed>>

\* handleSearch submitted while a discovery is pending, as a form without
\* the disabled attributes would allow
handleSearch_whileSearching ==
  /\ UNCHANGED stageVars
  /\ ~crashed
  /\ trim(query) # <<>>
  /\ apiKey
  /\ nOps < MaxOps
  /\ nOps' = nOps + 1
  /\ isSearching' = TRUE
  /\ error' = Null
  /\ result' = Null
  /\ timelineImage' = Null
  /\ literatureReview' = Null
  /\ currentResearchId' = Null
  /\ UnmountSections
  /\ searchReq' = Append(searchReq, SearchClosure)
  /\ uncaught' = FALSE
  /\ UNCHANGED <<query, config, apiKey, quotaExceeded, crashed, historyItems,
                 storage, now>>

\* App.tsx:92-127 handleSearch up to the await, submitted through the
\* form of App.tsx:258-275 (input and button disabled while searching);
\* a blank query returns at line 94; without a key researchTopic rejects
\* before anything is sent, and the handler runs to its end before any
\* other event
handleSearch ==
  /\ UNCHANGED stageVars
  /\ ~crashed
  /\ ~isSearching
  /\ IF trim(query) = <<>>
     THEN /\ uncaught' = FALSE
          /\ UNCHANGED <<programVars, nOps>>
     ELSE /\ timelineImage' = Null
          /\ literatureReview' = Null
          /\ UnmountSections
          /\ uncaught' = FALSE
          /\ UNCHANGED <<query, config, apiKey, quotaExceeded, crashed>>
          /\ nOps < MaxOps
          /\ nOps' = nOps + 1
          /\ IF apiKey
             THEN /\ isSearching' = TRUE
                  /\ error' = Null
                  /\ result' = Null
                  /\ currentResearchId' = Null
                  /\ searchReq' = Append(searchReq, SearchClosure)
                  /\ UNCHANGED <<historyItems, storage, now>>
             ELSE /\ searchReq' = searchReq
                  /\ isSearching' = FALSE
                  /\ error' = SearchErrorMessage
                  /\ result' = Null
                  /\ currentResearchId' = Null
                  /\ ~researchTopic(apiKey, [kind |-> "error"]).ok
                  /\ UNCHANGED <<historyItems, storage, now>>

\* the pending discovery returns `response`
handleSearchSettled(response) ==
  /\ UNCHANGED stageVars
  /\ ~crashed
  /\ searchReq # <<>>
  /\ searchReq' = Tail(searchReq)
  /\ SearchSettled(Head(searchReq), researchTopic(apiKey, response))
  /\ uncaught' = FALSE
  /\ UNCHANGED <<query, config, timelineImage, literatureReview, apiKey,
                 timelineReqs, reviewReqs, loading, quotaExceeded, nOps>>

\* loadHistoryItem without its setConfig(item.config) call
loadHistoryItem_keepsConfig(i) ==
  /\ UNCHANGED stageVars
  /\ ~crashed
  /\ i \in 1..Len(historyItems)
  /\ LET item == historyItems[i]
     IN  /\ query' = item.topic
         /\ result' = item.result
         /\ timelineImage' = item.timelineImage
         /\ literatureReview' = OrNull(item.literatureReview)
         /\ currentResearchId' = item.id
         /\ RenderResult(item.id, item.result)
  /\ uncaught' = FALSE
  /\ UNCHANGED <<isSearching, error, config, historyItems, storage, apiKey,
                 now, searchReq, timelineReqs, reviewReqs, loading,
                 quotaExceeded, nOps>>

\* App.tsx:81-90
loadHistoryItem(i) ==
  /\ UNCHANGED stageVars
  /\ ~crashed
  /\ i \in 1..Len(historyItems)
  /\ LET item == historyItems[i]
     IN  /\ query' = item.topic
         /\ result' = item.result
         /\ timelineImage' = item.timelineImage
         /\ literatureReview' = OrNull(item.literatureReview)
         /\ config' = item.config
         /\ currentResearchId' = item.id
         /\ RenderResult(item.id, item.result)
  /\ uncaught' = FALSE
  /\ UNCHANGED <<isSearching, error, historyItems, storage, apiKey, now,
                 searchReq, timelineReqs, reviewReqs, loading, quotaExceeded,
                 nOps>>

\* App.tsx:60-72; setItem is not guarded here, so a refused write leaves
\* the handler by exception after setHistoryItems has been queued
deleteHistoryItem(i) ==
  /\ UNCHANGED stageVars
  /\ ~crashed
  /\ i \in 1..Len(historyItems)
  /\ nOps < MaxOps
  /\ nOps' = nOps + 1
  /\ LET id == historyItems[i].id
         updatedHistory == deleteHistoryItems(historyItems, id)
     IN  /\ historyItems' = updatedHistory
         /\ storage' = setItem(JSONstringify(updatedHistory)).stored
         /\ IF setItem(JSONstringify(updatedHistory)).ok
            THEN /\ uncaught' = FALSE
                 /\ IF currentResearchId = id
                    THEN /\ result' = Null
                         /\ timelineImage' = Null
                         /\ literatureReview' = Null
                         /\ currentResearchId' = Null
                         /\ UnmountSections
                    ELSE UNCHANGED <<result, timelineImage, literatureReview,
                                     currentResearchId, loading, timelineReqs,
                                     reviewReqs, chatVars>>
            ELSE /\ uncaught' = TRUE
                 /\ UNCHANGED <<result, timelineImage,
                                literatureReview, currentResearchId, loading,
                                timelineReqs, reviewReqs, chatVars>>
  /\ UNCHANGED <<query, isSearching, error, config, apiKey, now, searchReq,
                 quotaExceeded, crashed>>

\* App.tsx:74-79 with the confirm dialog answered yes (answered no, the
\* handler does nothing); the button is rendered for a non-empty history
clearHistory ==
  /\ UNCHANGED stageVars
  /\ ~crashed
  /\ nOps < MaxOps
  /\ nOps' = nOps + 1
  /\ Len(historyItems) > 0
  /\ historyItems' = <<>>
  /\ storage' = NoItem
  /\ uncaught' = FALSE
  /\ UNCHANGED <<query, isSearching, result, error, config, timelineImage,
                 literatureReview, currentResearchId, apiKey, now, searchReq,
                 timelineReqs, reviewReqs, loading, quotaExceeded, chatVars,
                 crashed>>

\* TimelineSection.tsx:19-23 handleGenerate up to the await; the buttons
\* are rendered at lines 64-83 (no image, not loading) and 93-106 (image)
handleGenerate ==
  /\ UNCHANGED stageVars
  /\ ~crashed
  /\ result # Null
  /\ timelineImage # Null \/ ~loading
  /\ nOps < MaxOps
  /\ nOps' = nOps + 1
  /\ loading' = TRUE
  /\ timelineReqs' = Append(timelineReqs, SectionClosure)
  /\ uncaught' = FALSE
  /\ UNCHANGED <<query, isSearching, result, error, config, timelineImage,
                 literatureReview, historyItems, currentResearchId, storage,
                 apiKey, now, searchReq, reviewReqs, quotaExceeded, chatVars,
                 crashed>>

\* handleTimelineGenerated reading the active session id at completion
\* time instead of the one of the render the request was started in
handleTimelineGenerated_updatesActive(req, url) ==
  /\ timelineImage' = IF crashed THEN timelineImage ELSE url
  /\ IF currentResearchId # Null
     THEN LET updatedHistory ==
                updateHistoryItems(req.historyItems, currentResearchId,
                                   "timelineImage", url)
          IN  /\ historyItems' = IF crashed THEN historyItems ELSE updatedHistory
              /\ TrySetItem(updatedHistory)
     ELSE UNCHANGED <<historyItems, storage>>

\* handleTimelineGenerated persisting the list it started from instead of
\* the updated one
handleTimelineGenerated_persistsOld(req, url) ==
  /\ timelineImage' = IF crashed THEN timelineImage ELSE url
  /\ IF req.currentResearchId # Null
     THEN LET updatedHistory ==
                updateHistoryItems(req.historyItems, req.currentResearchId,
                                   "timelineImage", url)
          IN  /\ historyItems' = IF crashed THEN historyItems ELSE updatedHistory
              /\ TrySetItem(req.historyItems)
     ELSE UNCHANGED <<historyItems, storage>>

\* App.tsx:129-134 in the closure `req`
handleTimelineGenerated(req, url) ==
  /\ timelineImage' = IF crashed THEN timelineImage ELSE url
  /\ IF req.currentResearchId # Null
     THEN LET updatedHistory ==
                updateHistoryItems(req.historyItems, req.currentResearchId,
                                   "timelineImage", url)
          IN  /\ historyItems' = IF crashed THEN historyItems ELSE updatedHistory
              /\ TrySetItem(updatedHistory)
     ELSE UNCHANGED <<historyItems, storage>>

\* TimelineSection.tsx:23-29: the pending request i returns `response`
handleGenerateSettled(i, response) ==
  /\ UNCHANGED stageVars
  /\ i \in 1..Len(timelineReqs)
  /\ LET req == timelineReqs[i]
         r == generateTimelineImage(apiKey, response)
     IN  /\ IF r.ok
            THEN handleTimelineGenerated(req, r.data)
            ELSE UNCHANGED <<timelineImage, historyItems, storage>>
         /\ loading' = IF req.mounted /\ ~crashed THEN FALSE ELSE loading
  /\ timelineReqs' = RemoveAt(timelineReqs, i)
  /\ uncaught' = FALSE
  /\ UNCHANGED <<query, isSearching, result, error, config, literatureReview,
                 currentResearchId, apiKey, now, searchReq, reviewReqs,
                 quotaExceeded, chatVars, crashed, nOps>>

\* LiteratureReviewSection: the generate control starts a request and
\* keeps the onReviewGenerated it was rendered with
handleGenerateReview ==
  /\ UNCHANGED stageVars
  /\ ~crashed
  /\ result # Null
  /\ nOps < MaxOps
  /\ nOps' = nOps + 1
  /\ reviewReqs' = Append(reviewReqs, SectionClosure)
  /\ uncaught' = FALSE
  /\ UNCHANGED <<query, isSearching, result, error, config, timelineImage,
                 literatureReview, historyItems, currentResearchId, storage,
                 apiKey, now, searchReq, timelineReqs, loading, quotaExceeded,
                 chatVars, crashed>>

\* App.tsx:136-141 in the closure `req`
handleReviewGenerated(req, review) ==
  /\ literatureReview' = IF crashed THEN literatureReview ELSE review
  /\ IF req.currentResearchId # Null
     THEN LET updatedHistory ==
                updateHistoryItems(req.historyItems, req.currentResearchId,
                                   "literatureReview", review)
          IN  /\ historyItems' = IF crashed THEN historyItems ELSE updatedHistory
              /\ TrySetItem(updatedHistory)
     ELSE UNCHANGED <<historyItems, storage>>

\* LiteratureReviewSection: the pending request i returns `response`
handleGenerateReviewSettled(i, response) ==
  /\ UNCHANGED stageVars
  /\ i \in 1..Len(reviewReqs)
  /\ LET req == reviewReqs[i]
         r == generateLiteratureReview(apiKey, response)
     IN  IF r.ok
         THEN handleReviewGenerated(req, r.data)
         ELSE UNCHANGED <<literatureReview, historyItems, storage>>
  /\ reviewReqs' = RemoveAt(reviewReqs, i)
  /\ uncaught' = FALSE
  /\ UNCHANGED <<query, isSearching, result, error, config, timelineImage,
                 currentResearchId, apiKey, now, searchReq, timelineReqs,
                 loading, quotaExceeded, chatVars, crashed, nOps>>

\* handleSend without the isLoading test of its guard
handleSend_ignoresLoading(text) ==
  /\ UNCHANGED stageVars
  /\ ~crashed
  /\ result # Null
  /\ trim(text) # <<>>
  /\ chatSessionRef # Null
  /\ nOps < MaxOps
  /\ nOps' = nOps + 1
  /\ messages' = Append(messages, [role |-> "user", text |-> text])
  /\ isLoading' = TRUE
  /\ chatReqs' = Append(chatReqs, [chat |-> chatSessionRef])
  /\ uncaught' = FALSE
  /\ UNCHANGED <<query, isSearching, result, error, config, timelineImage,
                 literatureReview, historyItems, currentResearchId, storage,
                 apiKey, now, searchReq, timelineReqs, reviewReqs, loading,
                 quotaExceeded, chatSessionRef, crashed>>

\* ChatWidget.tsx:43-55 handleSend up to the await, submitted with `text`
\* in the input box; the turn goes to the chat the ref holds at that moment
handleSend(text) ==
  /\ UNCHANGED stageVars
  /\ ~crashed
  /\ result # Null
  /\ trim(text) # <<>>
  /\ chatSessionRef # Null
  /\ ~isLoading
  /\ nOps < MaxOps
  /\ nOps' = nOps + 1
  /\ messages' = Append(messages, [role |-> "user", text |-> text])
  /\ isLoading' = TRUE
  /\ chatReqs' = Append(chatReqs, [chat |-> chatSessionRef])
  /\ uncaught' = FALSE
  /\ UNCHANGED <<query, isSearching, result, error, config, timelineImage,
                 literatureReview, historyItems, currentResearchId, storage,
                 apiKey, now, searchReq, timelineReqs, reviewReqs, loading,
                 quotaExceeded, chatSessionRef, crashed>>

\* ChatWidget.tsx:59 and 71: the text of the assistant message
ReplyText(response) ==
  IF response.kind = "error" THEN ChatApology
  ELSE IF response.text = <<>> THEN ChatFallback
  ELSE response.text

\* ChatWidget.tsx:57-75: the pending turn i returns `response`; the
\* updater appends to whatever the message list is by then
handleSendSettled(i, response) ==
  /\ UNCHANGED stageVars
  /\ i \in 1..Len(chatReqs)
  /\ response \in ChatResponses(chatReqs[i].chat)
  /\ messages' =
       Append(messages, [role |-> "model", text |-> ReplyText(response)])
  /\ isLoading' = FALSE
  /\ chatReqs' = RemoveAt(chatReqs, i)
  /\ uncaught' = FALSE
  /\ UNCHANGED <<query, isSearching, result, error, config, timelineImage,
                 literatureReview, historyItems, currentResearchId, storage,
                 apiKey, now, searchReq, timelineReqs, reviewReqs, loading,
                 quotaExceeded, chatSessionRef, crashed, nOps>>

\* the research result a pending section request was started for
RequestContext(reqs, i) ==
  IF i \in 1..Len(reqs) THEN reqs[i].currentResearchId ELSE Null

\* the sidebar entries the user selects, and those the user deletes
SelectPicks(items) == {1} \cap (1..Len(items))
DeletePicks(items) == {1, 2} \cap (1..Len(items))

Next ==
  \/ \E q \in Queries : SetQuery(q)
  \/ \E language \in LanguagePicks : setConfig(language)
  \/ handleSearch
  \/ \E response \in Responses :
        handleSearchSettled(response)
  \/ \E i \in SelectPicks(historyItems) : loadHistoryItem(i)
  \/ \E i \in DeletePicks(historyItems) : deleteHistoryItem(i)
  \/ clearHistory
  \/ handleGenerate
  \/ \E i \in 1..MaxOps :
        \E response \in ImageResponses(RequestContext(timelineReqs, i)) :
          handleGenerateSettled(i, response)
  \/ handleGenerateReview
  \/ \E i \in 1..MaxOps :
        \E response \in ReviewResponses(RequestContext(reviewReqs, i)) :
          handleGenerateReviewSettled(i, response)
  \/ \E text \in ChatInputs : handleSend(text)
  \/ \E i \in 1..MaxOps :
        \E response \in ChatResponses(IF i <= Len(chatReqs)
                                        THEN chatReqs[i].chat ELSE Null) :
          handleSendSettled(i, response)

Spec == Init /\ [][Next]_vars

\* every pending discovery, image request and chat turn eventually
\* returns or fails: the continuation of an await runs once the promise
\* settles, whatever the user does meanwhile
RequestsSettle ==
  /\ WF_vars(\E response \in Responses : handleSearchSettled(response))
  /\ WF_vars(\E i \in 1..MaxOps :
               \E response \in ImageResponses(RequestContext(timelineReqs, i)) :
                 handleGenerateSettled(i, response))
  /\ WF_vars(\E i \in 1..MaxOps :
               \E response \in ChatResponses(IF i <= Len(chatReqs)
                                               THEN chatReqs[i].chat ELSE Null) :
                 handleSendSettled(i, response))

\* the events that start or settle a discovery, an image request or a
\* chat turn, or that mount or unmount the components holding the three
\* loading flags; the language buttons, Clear History and the review
\* requests write only config, the store and the review
LiveNext ==
  \/ \E q \in Queries : SetQuery(q)
  \/ handleSearch
  \/ \E response \in Responses :
        handleSearchSettled(response)
  \/ \E i \in SelectPicks(historyItems) : loadHistoryItem(i)
  \/ \E i \in DeletePicks(historyItems) : deleteHistoryItem(i)
  \/ handleGenerate
  \/ \E i \in 1..MaxOps :
        \E response \in ImageResponses(RequestContext(timelineReqs, i)) :
          handleGenerateSettled(i, response)
  \/ \E text \in ChatInputs : handleSend(text)
  \/ \E i \in 1..MaxOps :
        \E response \in ChatResponses(IF i <= Len(chatReqs)
                                        THEN chatReqs[i].chat ELSE Null) :
          handleSendSettled(i, response)

LiveSpec == Init /\ [][LiveNext]_vars /\ RequestsSettle

\* ------------------------------------------------ the stages on their own
\* what a stage hands to the client library: `sent` tells whether the
\* call reaches generateContent, i.e. goes to the transport
NoRequest == [sent |-> FALSE]

\* `call` names the function entered and its arguments, `ret` holds the
\* request it compiled and the outcome it returned or threw
Returned(request, outcome) == [request |-> request, outcome |-> outcome]

\* geminiService.ts:18-136 called with (topic, cfg), the transport
\* answering `response`
callResearchTopic(topic, cfg, response) ==
  /\ call' = [fn |-> "researchTopic", topic |-> topic, config |-> cfg,
              response |-> response]
  /\ ret' = Returned(IF apiKey
                     THEN [sent |-> TRUE,
                           systemInstruction |-> discoveryInstruction(cfg),
                           contents |-> discoveryPrompt(topic, cfg)]
                     ELSE NoRequest,
                     researchTopic(apiKey, response))
  /\ UNCHANGED appVars

\* geminiService.ts:138-235 called with (res, language, citationStyle)
callGenerateLiteratureReview(res, language, citationStyle, response) ==
  /\ call' = [fn |-> "generateLiteratureReview", result |-> res,
              language |-> language, citationStyle |-> citationStyle,
              response |-> response]
  /\ ret' = Returned(IF apiKey
                     THEN [sent |-> TRUE,
                           systemInstruction |-> reviewInstruction,
                           contents |-> reviewPrompt(res, language, citationStyle)]
                     ELSE NoRequest,
                     generateLiteratureReview(apiKey, response))
  /\ UNCHANGED appVars

\* geminiService.ts:237-298 called with (visualPrompt, size, language).
\* The function does not test the key: it builds the client with whatever
\* process.env.API_KEY is and calls generateContent.  Whether a client
\* without a key refuses to be built or sends the request and has it
\* rejected is the library's choice (`sent`); the window.aistudio key
\* dialog of lines 244-251 exists only inside AI Studio.
callGenerateTimelineImage(visualPrompt, size, language, response, sent) ==
  /\ apiKey => sent
  /\ call' = [fn |-> "generateTimelineImage", visualPrompt |-> visualPrompt,
              size |-> size, language |-> language, response |-> response]
  /\ ret' = Returned(IF sent
                     THEN [sent |-> TRUE, imageSize |-> size,
                           contents |-> timelinePrompt(visualPrompt, language)]
                     ELSE NoRequest,
                     generateTimelineImage(apiKey, response))
  /\ UNCHANGED appVars

\* geminiService.ts:300-331 called with (context): chats.create receives
\* the instruction, nothing is sent before the first turn
callGetResearchChatSession(context) ==
  /\ call' = [fn |-> "getResearchChatSession", context |-> context]
  /\ ret' = Returned(IF apiKey
                     THEN [sent |-> FALSE,
                           systemInstruction |-> chatInstruction(context)]
                     ELSE NoRequest,
                     getResearchChatSession(apiKey, context))
  /\ UNCHANGED appVars

\* App.tsx:143-190 with the view showing (res, image, review) and the
\* clock reading `date`: the outcome is the downloaded document
handleExportMarkdown(res, image, review, date) ==
  /\ call' = [fn |-> "handleExportMarkdown", result |-> res, image |-> image,
              review |-> review, date |-> date]
  /\ ret' = Returned(NoRequest,
                     [ok |-> TRUE, data |-> exportContent(res, image, review, date)])
  /\ UNCHANGED appVars

\* the stages are entered with a fresh page: nothing stored, storage
\* accepting writes, the key set or not
StageInit ==
  /\ Init
  /\ storage = NoItem
  /\ ~quotaExceeded

StageNext ==
  \/ \E cfg \in Configs : \E response \in Responses :
        callResearchTopic(<<"c">>, cfg, response)
  \/ \E res \in ResearchResults : \E language \in Languages :
        \E citationStyle \in CitationStyles :
          \E response \in {[kind |-> "error"], [kind |-> "text", text |-> "rev"]} :
            callGenerateLiteratureReview(res, language, citationStyle, response)
  \/ \E language \in Languages : \E response \in StageImageResponses :
        \E sent \in BOOLEAN :
          callGenerateTimelineImage("vp", "2K", language, response, sent)
  \/ \E context \in ResearchResults : callGetResearchChatSession(context)
  \/ \E res \in ResearchResults : \E image \in {Null, "imgA"} :
        \E review \in {Null, "rev"} : \E date \in Dates :
          handleExportMarkdown(res, image, review, date)

StageSpec == StageInit /\ [][StageNext]_vars

\* ----------------------------------------------------------- properties
Ids(items) == [i \in 1..Len(items) |-> items[i].id]

IdSet(items) == {items[i].id : i \in 1..Len(items)}

\* the session stored under `id` (ids are unique in a store)
ItemOf(items, id) == items[CHOOSE i \in 1..Len(items) : items[i].id = id]

\* a step in which handleSearch creates a session: it reads a fresh clock
\* value for the id
Inserted == now' = now + 1

\* C1: the in-memory store never holds more than 15 sessions, and an
\* insertion into a store that holds 15 evicts exactly its last entry and
\* leaves 15 entries.
C1_BoundedEvictOldest ==
  /\ [](Len(historyItems) <= Capacity)
  /\ [][(Inserted /\ Len(historyItems) = Capacity) =>
          Ids(historyItems') =
            <<IdOf(now')>> \o SubSeq(Ids(historyItems), 1, Capacity - 1)]_vars

\* C2: when a discovery succeeds the new session is the first entry and
\* the sessions held immediately before follow it, unchanged and in the
\* same order, up to the capacity truncation.
C2_InsertPrepends ==
  [][Inserted =>
       /\ historyItems'[1].id = IdOf(now')
       /\ Tail(historyItems') = SubSeq(historyItems, 1, Len(historyItems') - 1)]_vars

\* the ids a step removes from the in-memory store and from the blob
RemovedFromStore == IdSet(historyItems) \ IdSet(historyItems')
RemovedFromBlob ==
  IdSet(LoadedHistory(storage)) \ IdSet(LoadedHistory(storage'))

\* C3: a stored session leaves the in-memory store or the persisted blob
\* only by a delete of its id, by clear-history, or by capacity eviction on
\* an insertion; no completion of a request and no load removes one.
C3_RemovedOnlyByDeleteClearEvict ==
  [][(RemovedFromStore # {} \/ RemovedFromBlob # {}) =>
       \/ \E i \in 1..Len(historyItems) :
            /\ deleteHistoryItem(i)
            /\ RemovedFromStore \subseteq {historyItems[i].id}
            /\ RemovedFromBlob \subseteq {historyItems[i].id}
       \/ clearHistory
       \/ /\ Inserted
          /\ Len(historyItems') = Capacity]_vars

\* C4: when a timeline-image or review generation completes for a session,
\* that session's artifact field is replaced, and the store is otherwise
\* the store of immediately before: same sessions, same order, every other
\* field of every session unchanged.
C4_CompletionTouchesOneField ==
  [][/\ \A i \in 1..Len(timelineReqs) :
        \A response \in ImageResponses(RequestContext(timelineReqs, i)) :
          ( /\ handleGenerateSettled(i, response)
            /\ ~crashed
            /\ generateTimelineImage(apiKey, response).ok
            /\ timelineReqs[i].currentResearchId # Null )
          => historyItems' =
               updateHistoryItems(historyItems, timelineReqs[i].currentResearchId,
                                  "timelineImage",
                                  generateTimelineImage(apiKey, response).data)
     /\ \A i \in 1..Len(reviewReqs) :
        \A response \in ReviewResponses(RequestContext(reviewReqs, i)) :
          ( /\ handleGenerateReviewSettled(i, response)
            /\ ~crashed
            /\ generateLiteratureReview(apiKey, response).ok
            /\ reviewReqs[i].currentResearchId # Null )
          => historyItems' =
               updateHistoryItems(historyItems, reviewReqs[i].currentResearchId,
                                  "literatureReview",
                                  generateLiteratureReview(apiKey, response).data)]_vars

\* C5: when an image request and a review request for the same session
\* have been pending together and both succeed, the stored session carries
\* both artifacts: the completion of either request leaves in the stored
\* session the artifact the other one has written.
C5_BothArtifactsKept ==
  [][/\ \A i \in 1..Len(timelineReqs) :
        \A response \in ImageResponses(RequestContext(timelineReqs, i)) :
          LET sid == timelineReqs[i].currentResearchId
          IN  ( /\ handleGenerateSettled(i, response)
                /\ ~crashed
                /\ generateTimelineImage(apiKey, response).ok
                /\ sid \in IdSet(historyItems) )
              => /\ sid \in IdSet(historyItems')
                 /\ ItemOf(historyItems', sid).timelineImage =
                      generateTimelineImage(apiKey, response).data
                 /\ ItemOf(historyItems', sid).literatureReview =
                      ItemOf(historyItems, sid).literatureReview
     /\ \A i \in 1..Len(reviewReqs) :
        \A response \in ReviewResponses(RequestContext(reviewReqs, i)) :
          LET sid == reviewReqs[i].currentResearchId
          IN  ( /\ handleGenerateReviewSettled(i, response)
                /\ ~crashed
                /\ generateLiteratureReview(apiKey, response).ok
                /\ sid \in IdSet(historyItems) )
              => /\ sid \in IdSet(historyItems')
                 /\ ItemOf(historyItems', sid).literatureReview =
                      generateLiteratureReview(apiKey, response).data
                 /\ ItemOf(historyItems', sid).timelineImage =
                      ItemOf(historyItems, sid).timelineImage]_vars

\* `items` without its i-th entry
WithoutIndex(items, i) ==
  [k \in 1..(Len(items) - 1) |-> IF k < i THEN items[k] ELSE items[k + 1]]

\* C6: deleting a session by id removes exactly the entry with that id;
\* every other session stays, unchanged and in the same relative order.
C6_DeleteRemovesExactlyOne ==
  [][\A i \in 1..Len(historyItems) :
       deleteHistoryItem(i) => historyItems' = WithoutIndex(historyItems, i)]_vars

\* C6 witness: the second of 15 sessions has been deleted, the first and
\* the former third are now neighbours
C6_Witness ==
  /\ Len(historyItems) = Capacity - 1
  /\ historyItems[1].id = IdOf(Capacity)
  /\ historyItems[2].id = IdOf(Capacity - 2)

\* C7: deleting the active session leaves the view without result, image,
\* review and active id; deleting any other session leaves those four
\* view fields as they were.
C7_DeleteActiveClearsView ==
  [][\A i \in 1..Len(historyItems) :
       deleteHistoryItem(i) =>
         IF historyItems[i].id = currentResearchId
         THEN /\ result' = Null
              /\ timelineImage' = Null
              /\ literatureReview' = Null
              /\ currentResearchId' = Null
         ELSE UNCHANGED <<result, timelineImage, literatureReview,
                          currentResearchId>>]_vars

\* C8: a refused persistence write in an insert, update or delete is never
\* thrown to the caller; the in-memory update is applied and the rest of
\* the operation runs.
C8_WriteFailureNeverThrown ==
  [][quotaExceeded =>
       /\ ~uncaught'
       /\ Inserted => (historyItems'[1].id = IdOf(now') /\ ~isSearching')
       /\ \A i \in 1..Len(historyItems) :
            deleteHistoryItem(i) =>
              /\ historyItems' = WithoutIndex(historyItems, i)
              /\ historyItems[i].id = currentResearchId =>
                   /\ result' = Null
                   /\ timelineImage' = Null
                   /\ literatureReview' = Null
                   /\ currentResearchId' = Null]_vars

\* C9: as long as no persistence write is refused and the page is alive,
\* the persisted blob deserializes to exactly the in-memory store, an
\* absent key counting as the empty store; a blob that does not
\* deserialize is there only before the first mutation.
C9_BlobMirrorsStore ==
  (~quotaExceeded /\ ~crashed) =>
    /\ storage = NoItem => historyItems = <<>>
    /\ storage.kind = "json" => JSONparseHistory(storage).value = historyItems
    /\ storage = GarbageText =>
         (historyItems = <<>> /\ now = Capacity)

\* C9 witness: after an insertion, an image update and a delete, all
\* persisted
C9_Witness ==
  /\ ~quotaExceeded
  /\ ~crashed
  /\ now = Capacity + 1
  /\ timelineReqs = <<>>
  /\ storage.kind = "json"
  /\ Len(historyItems) = Capacity - 1
  /\ historyItems[1].id = IdOf(Capacity + 1)
  /\ historyItems[1].timelineImage = ImageFor(IdOf(Capacity + 1))

\* the discovery request answered by `response` fails: transport error,
\* empty text, or a candidate text that does not parse
DiscoveryFails(response) ==
  \/ response.kind = "error"
  \/ response.text = <<>>
  \/ ~JSONparse(cleanJson(response.text)).ok

FailureOutcome ==
  /\ historyItems' = historyItems
  /\ storage' = storage
  /\ error' = SearchErrorMessage
  /\ ~isSearching'

\* C10: a failed discovery (no credential, empty response, malformed
\* output, transport error) adds no session to the store or the blob,
\* changes no stored session, sets no active session id and reports an
\* error.
C10_FailedDiscoveryCreatesNothing ==
  [][/\ \A response \in Responses :
          (handleSearchSettled(response) /\ DiscoveryFails(response))
          => (FailureOutcome /\ currentResearchId' = currentResearchId)
     /\ (handleSearch /\ trim(query) # <<>> /\ ~apiKey)
          => (FailureOutcome /\ currentResearchId' = Null)]_vars

\* C10 witness: a discovery sent with a credential has failed; the full
\* store is as it was and no session is active
C10_Witness ==
  /\ apiKey
  /\ error = SearchErrorMessage
  /\ ~isSearching
  /\ searchReq = <<>>
  /\ currentResearchId = Null
  /\ result = Null
  /\ now = Capacity
  /\ historyItems = EarlierHistory(Capacity, Capacity)

\* the image stage fails on `response`: no credential, transport error or
\* no inline image part
ImageStageFails(response) ==
  \/ ~apiKey
  \/ response.kind = "error"
  \/ firstInlineData(response.parts) = NoData

\* the review stage fails on `response`: no credential, transport error or
\* an empty text
ReviewStageFails(response) ==
  \/ ~apiKey
  \/ response.kind = "error"
  \/ response.text = ""

\* C11: when a timeline-image or literature-review request fails, the
\* store, the blob and the displayed image and review are what they were.
C11_FailedArtifactRequestChangesNothing ==
  [][/\ \A i \in 1..Len(timelineReqs) :
        \A response \in ImageResponses(RequestContext(timelineReqs, i)) :
          (handleGenerateSettled(i, response) /\ ImageStageFails(response))
          => UNCHANGED <<historyItems, storage, timelineImage, literatureReview>>
     /\ \A i \in 1..Len(reviewReqs) :
        \A response \in ReviewResponses(RequestContext(reviewReqs, i)) :
          (handleGenerateReviewSettled(i, response) /\ ReviewStageFails(response))
          => UNCHANGED <<historyItems, storage, timelineImage, literatureReview>>]_vars

EmptyDiscoveryResponse == [kind |-> "text", text |-> <<>>]
EmptyReviewResponse == [kind |-> "text", text |-> ""]

\* C12: an empty response is a failure of discovery and of the literature
\* review alike: the stage reports an error, and no session is created and
\* no review is attached or displayed.
C12_EmptyResponseIsFailure ==
  [][/\ handleSearchSettled(EmptyDiscoveryResponse)
          => /\ ~researchTopic(apiKey, EmptyDiscoveryResponse).ok
             /\ error' = SearchErrorMessage
             /\ UNCHANGED <<historyItems, storage, result, currentResearchId>>
     /\ \A i \in 1..Len(reviewReqs) :
          handleGenerateReviewSettled(i, EmptyReviewResponse)
          => /\ ~generateLiteratureReview(apiKey, EmptyReviewResponse).ok
             /\ UNCHANGED <<historyItems, storage, literatureReview>>]_vars

Range(seq) == {seq[k] : k \in 1..Len(seq)}

\* the fields of a session that are set at creation
Immutable(item) == <<item.topic, item.timestamp, item.result, item.config>>

\* every copy of a session the program holds: the store, the blob and the
\* lists pending continuations have closed over
ClosureItems(reqs) == UNION {Range(reqs[k].historyItems) : k \in 1..Len(reqs)}
Copies ==
  Range(historyItems) \cup Range(LoadedHistory(storage)) \cup
  ClosureItems(searchReq) \cup ClosureItems(timelineReqs) \cup
  ClosureItems(reviewReqs)

\* C13: topic, timestamp, result and config of a session id never change:
\* all copies of a session agree on them in every state (so a session that
\* is written back from a copy has them as before), and no step changes
\* them for an id the store holds before and after it.
C13_CreationFieldsNeverChange ==
  /\ [](Cardinality({<<x.id, Immutable(x)>> : x \in Copies}) =
          Cardinality({x.id : x \in Copies}))
  /\ [][\A k \in 1..Len(historyItems), m \in 1..Len(historyItems') :
          historyItems[k].id = historyItems'[m].id
          => Immutable(historyItems[k]) = Immutable(historyItems'[m])]_vars

\* C13 witness: a session created in this run has received an image; its
\* result is the one it was created with
C13_Witness ==
  /\ ~crashed
  /\ Len(historyItems) = Capacity
  /\ historyItems[1].id = IdOf(Capacity + 1)
  /\ historyItems[1].result = "b"
  /\ historyItems[1].timelineImage = ImageFor(IdOf(Capacity + 1))
  /\ historyItems[2].result = "a"

\* the artifacts a stored session may carry: none, those an earlier run
\* left on it, or those generated from its own research result
OwnArtifacts(x) ==
  /\ x.timelineImage \in
       {Null, ImageFor(x.id)} \cup
       (IF x.id = IdOf(Capacity) THEN {"img0"} ELSE {})
  /\ x.literatureReview \in
       {Null, ReviewFor(x.id), ReviewFallback} \cup
       (IF x.id = IdOf(Capacity) THEN {"rev0"} ELSE {})

\* C14: an image or review is written only to the stored session that was
\* active when it was requested: every session in the store and in the
\* blob carries only artifacts generated from its own research result,
\* whichever session is active when a request completes.
C14_ArtifactWrittenOnlyToOwner ==
  \A x \in Range(historyItems) \cup Range(LoadedHistory(storage)) :
    OwnArtifacts(x)

\* C14 witness: the image requested for session 15 has arrived while
\* session 14 is the active one; it is displayed, and stored on session 15
C14_Witness ==
  /\ ~crashed
  /\ timelineReqs = <<>>
  /\ currentResearchId = IdOf(Capacity - 1)
  /\ timelineImage = ImageFor(IdOf(Capacity))
  /\ \E k \in 1..Len(historyItems) :
       /\ historyItems[k].id = IdOf(Capacity)
       /\ historyItems[k].timelineImage = ImageFor(IdOf(Capacity))
  /\ \E k \in 1..Len(historyItems) :
       /\ historyItems[k].id = IdOf(Capacity - 1)
       /\ historyItems[k].timelineImage = Null

\* C15: the generate and regenerate controls start no timeline-image
\* request while one for the displayed session is in flight, and so at
\* most one timeline-image request is in flight at any time.
C15_OneTimelineRequestInFlight ==
  /\ [][handleGenerate =>
          \A i \in 1..Len(timelineReqs) :
            timelineReqs[i].currentResearchId # currentResearchId]_vars
  /\ [](Len(timelineReqs) <= 1)

\* the spans of `text` that start at a `{`, end at a `}` and are a JSON
\* object by themselves
ValidSpans(text) ==
  {sp \in (1..Len(text)) \X (1..Len(text)) :
     /\ sp[1] < sp[2]
     /\ text[sp[1]] = "{"
     /\ text[sp[2]] = "}"
     /\ JSONparse(SubSeq(text, sp[1], sp[2])).ok}

\* the research result the step has recovered is `value`
Recovered(value) ==
  /\ result' = value
  /\ historyItems'[1].result = value
  /\ error' = error

\* C16 as stated: whenever a response text contains a valid object span
\* anywhere, recovery returns the value of parsing that span.
C16_AnyValidSpanRecovered ==
  [][\A response \in Responses :
       (handleSearchSettled(response) /\ response.kind = "text")
       => \A sp \in ValidSpans(response.text) :
            Recovered(JSONparse(SubSeq(response.text, sp[1], sp[2])).value)]_vars

\* C16 amended: whenever the span from the first `{` to the last `}` of a
\* response text is a valid object, recovery returns the value of parsing
\* that span.
C16_BraceBoundedSpanRecovered ==
  [][\A response \in Responses :
       (handleSearchSettled(response) /\ response.kind = "text")
       => LET first == indexOf(response.text, "{", 0) + 1
              last == lastIndexOf(response.text, "}") + 1
          IN  <<first, last>> \in ValidSpans(response.text)
              => Recovered(JSONparse(SubSeq(response.text, first, last)).value)]_vars

\* C16 witness: the result recovered from the response that wraps the
\* object in prose is displayed and stored
C16_Witness ==
  /\ ~crashed
  /\ now = Capacity + 1
  /\ result = "a"
  /\ currentResearchId = IdOf(Capacity + 1)
  /\ historyItems[1].id = IdOf(Capacity + 1)
  /\ historyItems[1].result = "a"

\* C17: a non-empty response text without `{`, or whose `}` all come
\* before its first `{`, makes recovery fail: the discovery reports an
\* error and returns no result.
C17_NoBraceSpanFails ==
  [][\A response \in Responses :
       ( /\ handleSearchSettled(response)
         /\ response.kind = "text"
         /\ response.text # <<>>
         /\ \/ indexOf(response.text, "{", 0) = -1
            \/ /\ lastIndexOf(response.text, "}") # -1
               /\ lastIndexOf(response.text, "}") < indexOf(response.text, "{", 0) )
       => /\ ~researchTopic(apiKey, response).ok
          /\ FailureOutcome
          /\ UNCHANGED <<result, currentResearchId>>]_vars

\* the same session is displayed before and after the step
SameSession ==
  /\ ~crashed /\ ~crashed'
  /\ result # Null /\ result' # Null
  /\ currentResearchId' = currentResearchId

IsPrefix(s1, s2) == Len(s1) <= Len(s2) /\ SubSeq(s2, 1, Len(s1)) = s1

\* a user message is followed by an assistant message, or it is the last
\* one and its turn is pending; a pending turn is the only one
TurnsAlternate ==
  /\ \A k \in 1..Len(messages) :
       messages[k].role = "user"
       => IF k < Len(messages) THEN messages[k + 1].role = "model"
          ELSE isLoading /\ Len(chatReqs) = 1
  /\ Len(chatReqs) <= 1
  /\ chatReqs # <<>> => isLoading

\* C18: while one session stays active the messages start with its
\* greeting and only grow at the end; a user turn is accepted only when no
\* turn is pending and appends the user message, and the return of the
\* turn appends exactly one assistant message.
C18_ChatAppendOnlyTurnByTurn ==
  /\ []((~crashed /\ result # Null) =>
          (messages[1] = Greeting(currentResearchId) /\ TurnsAlternate))
  /\ [][SameSession =>
          /\ IsPrefix(messages, messages')
          /\ Len(messages') <= Len(messages) + 1
          /\ \A text \in ChatInputs :
               handleSend(text)
               => /\ chatReqs = <<>>
                  /\ messages' = Append(messages, [role |-> "user", text |-> text])
          /\ \A response \in ChatResponses(RequestContext(
                                [k \in 1..Len(chatReqs) |->
                                   [currentResearchId |-> chatReqs[k].chat]], 1)) :
               handleSendSettled(1, response)
               => /\ messages' = Append(messages,
                                       [role |-> "model", text |-> ReplyText(response)])
                  /\ ~isLoading']_vars

\* C18 witness: two turns on session 15 have been answered
C18_Witness ==
  /\ ~crashed
  /\ currentResearchId = IdOf(Capacity)
  /\ ~isLoading
  /\ Len(messages) = 5
  /\ messages[2].role = "user"
  /\ messages[3] = [role |-> "model", text |-> <<"answer", IdOf(Capacity)>>]
  /\ messages[4].role = "user"
  /\ messages[5].role = "model"

\* C19: the messages shown for the active session are its greeting and
\* turns started under it: every assistant message after the greeting
\* follows a user message, and an answer is one of the chat created for
\* the active session.
C19_NoMessageFromPreviousSession ==
  (~crashed /\ result # Null) =>
    /\ messages[1] = Greeting(currentResearchId)
    /\ \A k \in 2..Len(messages) :
         messages[k].role = "model"
         => /\ messages[k - 1].role = "user"
            /\ messages[k].text \in
                 {ChatApology, ChatFallback, <<"answer", currentResearchId>>}

\* C20: a failed turn appends the one fallback message and leaves the
\* chat ready for the next turn, and displaying a session never takes the
\* page down, with or without a credential.
C20_ChatFailuresAbsorbed ==
  [][/\ (chatReqs # <<>> /\ handleSendSettled(1, [kind |-> "error"]))
          => /\ messages' =
                  Append(messages, [role |-> "model", text |-> ChatApology])
             /\ ~isLoading'
             /\ ~crashed'
             /\ ~uncaught'
     /\ \A i \in 1..Len(historyItems) :
          (loadHistoryItem(i) /\ historyItems[i].result \in Members)
          => ~crashed']_vars

\* the language stored in the config of the active session
SessionLanguage == ItemOf(historyItems, currentResearchId).config.language

\* C22: a timeline-image request started for a stored session is compiled
\* with the language of that session's config.
C22_RequestUsesSessionLanguage ==
  [][(handleGenerate /\ currentResearchId \in IdSet(historyItems))
       => timelineReqs'[Len(timelineReqs')].language = SessionLanguage]_vars

\* the creation timestamps of `items` never increase from front to back
NewestFirst(items) ==
  \A i \in 1..Len(items) : \A j \in i..Len(items) :
    items[i].timestamp >= items[j].timestamp

AddedToStore == IdSet(historyItems') \ IdSet(historyItems)

AddedToBlob ==
  IdSet(LoadedHistory(storage')) \ IdSet(LoadedHistory(storage))

\* C30: while no session has been created (so none was evicted), every id
\* missing from the store was deleted or cleared, and no step puts an id
\* back into the in-memory store or the persisted blob.
C30_RemovedSessionStaysRemoved ==
  [][now' = Capacity => (AddedToStore = {} /\ AddedToBlob = {})]_vars

\* the four stage functions of geminiService.ts
StageFunctions ==
  {"researchTopic", "generateTimelineImage", "generateLiteratureReview",
   "getResearchChatSession"}

\* C21: without a key every stage call fails with the credential-missing
\* error, and no request has gone to the transport.
C21_NoKeyFailsBeforeSending ==
  (~apiKey /\ call.fn \in StageFunctions) =>
    /\ ~ret.outcome.ok
    /\ ret.outcome.error = "API Key is missing"
    /\ ~ret.request.sent

\* how often `block` occurs in `text` as a run of consecutive tokens
Occurrences(block, text) ==
  Cardinality({k \in 1..(Len(text) - Len(block) + 1) :
                 SubSeq(text, k, k + Len(block) - 1) = block})

\* the stage functions that compile a configuration into a request
Compilers ==
  {"researchTopic", "generateTimelineImage", "generateLiteratureReview"}

\* the whole text of the request compiled by the last call
RequestText ==
  IF call.fn = "generateTimelineImage" THEN ret.request.contents
  ELSE ret.request.systemInstruction \o ret.request.contents

\* the focus blocks that occur in `text`, each counted once per occurrence
FocusBlockCount(text) ==
  Occurrences(FocusClassic, text) + Occurrences(FocusRecent, text)
    + Occurrences(FocusBalanced, text)

\* C24: whatever the language and focus values, the compiled request text
\* holds no undefined value, names a supported language, and a discovery
\* request holds one focus block.
C24_CompilerTotal ==
  (call.fn \in Compilers /\ ret.request.sent) =>
    /\ Undefined \notin Range(RequestText)
    /\ \E l \in {"English", "Chinese (Simplified)", "Japanese"} :
         l \in Range(RequestText)
    /\ call.fn = "researchTopic" => FocusBlockCount(RequestText) = 1

\* C25: the compiled discovery request holds exactly one focus block:
\* the history block for classic, the recent block for recent, the
\* balanced block otherwise, and neither of the other two.
C25_OneFocusBlock ==
  (call.fn = "researchTopic" /\ ret.request.sent) =>
    /\ FocusBlockCount(RequestText) = 1
    /\ call.config.focus = "classic" => Occurrences(FocusClassic, RequestText) = 1
    /\ call.config.focus = "recent" => Occurrences(FocusRecent, RequestText) = 1
    /\ call.config.focus = "balanced" => Occurrences(FocusBalanced, RequestText) = 1

\* C25 witness: a discovery request compiled for focus = recent holds the
\* recent block and not the history block
C25_Witness ==
  /\ call.fn = "researchTopic"
  /\ ret.request.sent
  /\ call.config.focus = "recent"
  /\ Occurrences(FocusRecent, RequestText) = 1
  /\ Occurrences(FocusClassic, RequestText) = 0

\* the style blocks that occur in `text`, counted per occurrence
StyleBlockCount(text) ==
  Occurrences(StyleIeee, text) + Occurrences(StyleMla, text)
    + Occurrences(StyleHarvard, text) + Occurrences(StyleApa, text)

\* C26: the compiled review prompt holds exactly one style block, the
\* one of the requested style (APA for an unknown one), and it holds the
\* rule that the bibliography follows the order of appearance, not the
\* alphabet, exactly when the style is IEEE; no other block has that rule.
C26_OneStyleBlock ==
  (call.fn = "generateLiteratureReview" /\ ret.request.sent) =>
    LET text == ret.request.contents
    IN  /\ StyleBlockCount(text) = 1
        /\ call.citationStyle = "ieee" => Occurrences(StyleIeee, text) = 1
        /\ call.citationStyle = "mla" => Occurrences(StyleMla, text) = 1
        /\ call.citationStyle = "harvard" => Occurrences(StyleHarvard, text) = 1
        /\ call.citationStyle = "apa" => Occurrences(StyleApa, text) = 1
        /\ AppearanceOrderRule \in Range(text) <=> call.citationStyle = "ieee"
        /\ AppearanceOrderRule \in Range(StyleIeee)
        /\ AppearanceOrderRule \notin
             Range(StyleMla) \cup Range(StyleHarvard) \cup Range(StyleApa)

\* C26 witness: an IEEE review of two articles has been compiled
C26_Witness ==
  /\ call.fn = "generateLiteratureReview"
  /\ ret.request.sent
  /\ call.citationStyle = "ieee"
  /\ Len(call.result.articles) = 2
  /\ AppearanceOrderRule \in Range(ret.request.contents)

RECURSIVE Lines(_)
\* the lines of a text: the runs of tokens between newline tokens
Lines(text) ==
  IF text = <<>> THEN <<>>
  ELSE LET k == indexOf(text, "\n", 0)
       IN  IF k = -1 THEN <<text>>
           ELSE <<SubSeq(text, 1, k)>> \o Lines(SubSeq(text, k + 2, Len(text)))

\* the tokens of `text` behind the heading of the article list
ArticleListOf(text) ==
  SubSeq(text, indexOf(text, KeyArticles, 0) + 2, Len(text))

\* C27: the chat context lists the articles of the result one per line,
\* in the result's order, line i numbered i and naming article i; it
\* holds the topic and the summary, and for zero articles the list is
\* empty.
C27_ContextListsEveryArticle ==
  (call.fn = "getResearchChatSession" /\ ret.outcome.ok) =>
    LET text == ret.request.systemInstruction
        articles == call.context.articles
        lines == Lines(ArticleListOf(text))
    IN  /\ Occurrences(<<"TOPIC:">> \o call.context.topic, text) = 1
        /\ Occurrences(<<"SUMMARY:">> \o call.context.summary, text) = 1
        /\ Occurrences(<<KeyArticles>>, text) = 1
        /\ Len(lines) = Len(articles)
        /\ \A i \in 1..Len(articles) :
             /\ lines[i][1] = ToString(i) \o "."
             /\ lines[i][2] = articles[i].title
             /\ lines[i][5] = articles[i].authors
             /\ lines[i][Len(lines[i])] = articles[i].ai_summary

\* C27 witness: a context was built for two different articles
C27_Witness ==
  /\ call.fn = "getResearchChatSession"
  /\ ret.outcome.ok
  /\ call.context.articles = <<ArticleB, ArticleA>>
  /\ Len(Lines(ArticleListOf(ret.request.systemInstruction))) = 2

\* the positions of the parts that carry inline data
PayloadPositions(parts) ==
  {k \in 1..Len(parts) : parts[k].inlineData # NoData}

Min(S) == CHOOSE k \in S : \A j \in S : k <= j

\* C28: given the parts of a response, the timeline stage returns the
\* payload of the first part that carries one, and fails when none does.
C28_FirstPayloadOrError ==
  (call.fn = "generateTimelineImage" /\ apiKey /\ call.response.kind = "parts") =>
    LET parts == call.response.parts
    IN  IF PayloadPositions(parts) = {}
        THEN /\ ~ret.outcome.ok
             /\ ret.outcome.error = "No image data found in response"
        ELSE /\ ret.outcome.ok
             /\ ret.outcome.data = parts[Min(PayloadPositions(parts))].inlineData

\* C28 witness: two parts carry different payloads and the first is
\* returned
C28_Witness ==
  /\ call.fn = "generateTimelineImage"
  /\ apiKey
  /\ call.response.kind = "parts"
  /\ call.response.parts = <<[inlineData |-> "imgB"], [inlineData |-> "imgA"]>>
  /\ ret.outcome.ok
  /\ ret.outcome.data = "imgB"

\* the view state an export was made from
ExportedState(c) == <<c.result, c.image, c.review>>

\* C29: the exported document is a function of the session state: two
\* exports of the same state yield the same document; it holds the image
\* section exactly when an image is attached, the review section exactly
\* when a review is attached, and one subsection per article.
C29_ExportDeterministic ==
  /\ [](call.fn = "handleExportMarkdown" =>
          LET doc == ret.outcome.data
          IN  /\ Occurrences(<<"## Visual Timeline">>, doc) =
                   (IF call.image # Null THEN 1 ELSE 0)
              /\ Occurrences(<<"## Literature Review">>, doc) =
                   (IF call.review # Null THEN 1 ELSE 0)
              /\ Occurrences(<<"---">>, doc) = Len(call.result.articles)
              /\ \A i \in 1..Len(call.result.articles) :
                   Occurrences(<<"### " \o ToString(i) \o ".",
                                 call.result.articles[i].title>>, doc) = 1)
  /\ [][(/\ call.fn = "handleExportMarkdown"
          /\ call'.fn = "handleExportMarkdown"
          /\ ExportedState(call') = ExportedState(call))
         => ret'.outcome.data = ret.outcome.data]_vars

\* no discovery, image, review or chat request is awaiting its response
NoStageInFlight ==
  searchReq = <<>> /\ timelineReqs = <<>> /\ reviewReqs = <<>> /\ chatReqs = <<>>

\* C31: whenever the active session id names a stored session and no stage
\* request is in flight, the displayed result, timeline image and
\* literature review are those of that stored session.
C31_ViewMatchesActiveSession ==
  (/\ ~crashed
   /\ currentResearchId \in IdSet(historyItems)
   /\ NoStageInFlight)
  => LET item == ItemOf(historyItems, currentResearchId)
     IN  /\ result = item.result
         /\ timelineImage = item.timelineImage
         /\ literatureReview = OrNull(item.literatureReview)

\* C32: in every reachable state, an active session id that is set names
\* a session of the in-memory store.
C32_ActiveSessionIsStored ==
  currentResearchId # Null => currentResearchId \in IdSet(historyItems)

\* a step that starts a discovery does so while none is running and with
\* a query that is not blank; a submission of a blank query changes
\* nothing and throws nothing
DiscoveryStartedProperly ==
  /\ (Len(searchReq') > Len(searchReq)) =>
       (~isSearching /\ trim(query) # <<>>)
  /\ (handleSearch /\ trim(query) = <<>>) =>
       (UNCHANGED programVars /\ ~uncaught')

\* C33: at most one discovery request is in flight at any time: while one
\* is running (isSearching) no second one is started, and submitting a
\* query that is empty or only blanks starts none and changes no state.
C33_OneDiscoveryInFlight ==
  /\ [](Len(searchReq) <= 1 /\ (searchReq # <<>> => isSearching))
  /\ [][DiscoveryStartedProperly]_vars

\* C33 witness: a second discovery is running after the first one created
\* a session, and the search box holds its query
C33_Witness ==
  /\ now = Capacity + 1
  /\ isSearching
  /\ Len(searchReq) = 1
  /\ searchReq[1].query = <<"c">>

\* C34: loading a session from the history makes it the active session,
\* sets the displayed result, image, review and config to that session's
\* stored values, and changes neither the in-memory store nor the
\* persisted blob.
C34_LoadShowsStoredSession ==
  [][\A i \in 1..Len(historyItems) :
       loadHistoryItem(i) =>
         /\ currentResearchId' = historyItems[i].id
         /\ result' = historyItems[i].result
         /\ timelineImage' = historyItems[i].timelineImage
         /\ literatureReview' = historyItems[i].literatureReview
         /\ config' = historyItems[i].config
         /\ historyItems' = historyItems
         /\ storage' = storage]_vars

\* C34 witness: the session of an earlier run that has an image and a
\* review was loaded and is on display with its result, image, review
\* and config
C34_Witness ==
  /\ ~crashed
  /\ now = Capacity
  /\ nOps >= 1
  /\ currentResearchId = IdOf(Capacity)
  /\ result = "a"
  /\ timelineImage = "img0"
  /\ literatureReview = "rev0"
  /\ config = DefaultConfig

\* C35: with every model request eventually returning or failing, every
\* started discovery ends with isSearching false, every started timeline
\* request with the timeline loading flag false and every accepted chat
\* turn with the chat loading flag false, whatever the outcome; a page
\* that React has unmounted after a render error shows no flag at all.
C35_FlagsEventuallyReset ==
  /\ (searchReq # <<>>) ~> (searchReq = <<>> /\ ~isSearching)
  /\ (timelineReqs # <<>>) ~> (timelineReqs = <<>> /\ (crashed \/ ~loading))
  /\ (chatReqs # <<>>) ~> (chatReqs = <<>> /\ (crashed \/ ~isLoading))

\* C35 witness: with a key, a discovery has failed, an image request for
\* a loaded session has succeeded and a chat turn has been answered; all
\* three flags are down
C35_Witness ==
  /\ apiKey
  /\ ~crashed
  /\ error = SearchErrorMessage
  /\ timelineImage = ImageFor(IdOf(Capacity))
  /\ Len(messages) = 3
  /\ NoStageInFlight
  /\ ~isSearching /\ ~loading /\ ~isLoading

\* the steps whose handler writes the store: a session is created, an
\* artifact is attached, a session is deleted, the history is cleared
StoreMutation ==
  \/ \E response \in Responses : handleSearchSettled(response)
  \/ \E i \in 1..Len(timelineReqs) :
       \E response \in ImageResponses(RequestContext(timelineReqs, i)) :
         handleGenerateSettled(i, response)
  \/ \E i \in 1..Len(reviewReqs) :
       \E response \in ReviewResponses(RequestContext(reviewReqs, i)) :
         handleGenerateReviewSettled(i, response)
  \/ \E i \in 1..Len(historyItems) : deleteHistoryItem(i)
  \/ clearHistory

\* C36: when the persisted blob does not parse at start-up, the store
\* starts empty and no error escapes the load; the blob stays as it was
\* found until a step that mutates the store.
C36_UnparsableBlobStartsEmpty ==
  /\ (storage # NoItem /\ ~JSONparseHistory(storage).ok) =>
       (historyItems = <<>> /\ ~uncaught /\ ~crashed)
  /\ [][(storage = GarbageText /\ ~StoreMutation) =>
          (storage' = GarbageText /\ historyItems' = historyItems)]_vars

\* C36 witness: the blob found unparsable is still in place, and the
\* store still empty, after a discovery sent with a key has failed
C36_Witness ==
  /\ storage = GarbageText
  /\ historyItems = <<>>
  /\ apiKey
  /\ ~quotaExceeded
  /\ error = SearchErrorMessage
  /\ ~isSearching

====
